---- MODULE Spec2Model ----
(***************************************************************************)
(* The rollout-collection worker of rlgraph/execution/ray/ray_worker.py:   *)
(* RayWorker.execute_and_get_timesteps (the lockstep collection loop, the  *)
(* episode bookkeeping and the carry state kept between calls) and         *)
(* RayWorker._process_sample_if_necessary (n-step adjustment, truncation,  *)
(* priority weights), and the actor's other methods: the constructor's     *)
(* assertions, execute_and_get_with_count, get_action and                  *)
(* get_workload_statistics.                                                *)
(*                                                                         *)
(* Slots are numbered 1..num_environments (the source counts from 0) and   *)
(* Python lists are sequences, so list index i is sequence index i+1.      *)
(***************************************************************************)
EXTENDS Integers, Sequences, FiniteSets, TLC

\* ---------------------------------------------------------------- bounds
MaxEnvs == 2          \* largest num_worker_environments
MaxNStep == 2         \* largest n_step_adjustment of a collecting worker
MaxTimesteps == 3     \* largest num_timesteps of one call
MaxCalls == 2         \* calls of execute_and_get_timesteps per behaviour
MaxEpisodeLen == 2    \* longest episode of the stand-in environment
MaxBatchLen == 3      \* longest batch handed to the post-processing alone
MaxWindow == 4        \* largest n_step_adjustment of the post-processing alone
MaxFailures == 1      \* calls that end in an exception per behaviour

\* the discount of agent_config (0.99 in the source's default), kept as an
\* integer so that the powers discount^j stay exact and distinct
discount == 3

VARIABLES
    cfg,         \* constructor arguments: worker_spec / agent_config entries
    worker,      \* the fields of the RayWorker instance (self.*)
    vector_env,  \* self.vector_env: the N environment slots
    call,        \* the locals of the running execute_and_get_timesteps call
    pc,          \* position of the call: "idle", "while", "after"
    batch_in,    \* the lists handed to _process_sample_if_necessary
    sample,      \* the EnvironmentSample returned by the last call
    trace        \* observer: what was fed, reset, stepped and read

vars == <<cfg, worker, vector_env, call, pc, batch_in, sample, trace>>

\* ---------------------------------------------------------------- helpers
Min(a, b) == IF a <= b THEN a ELSE b
Max(a, b) == IF a >= b THEN a ELSE b
Abs(x) == IF x < 0 THEN -x ELSE x

RECURSIVE Pow(_, _)
Pow(b, e) == IF e = 0 THEN 1 ELSE b * Pow(b, e - 1)

RECURSIVE Flatten(_)
Flatten(ss) == IF ss = <<>> THEN <<>> ELSE Head(ss) \o Flatten(Tail(ss))

Last(s) == s[Len(s)]
Repeat(x, n) == [j \in 1..n |-> x]

\* Python's `del arr[n:]`: a negative n counts from the end of the list.
DelFrom(arr, n) ==
    IF n >= 0 THEN SubSeq(arr, 1, Min(n, Len(arr)))
    ELSE SubSeq(arr, 1, Max(Len(arr) + n, 0))

\* Python's `arr[1:]`.
DropFirst(arr) == IF arr = <<>> THEN <<>> ELSE Tail(arr)

Slots == 1..cfg.num_environments

\* ------------------------------------------------- environment (stand-in)
\* A raw state names the episode of its slot, the position in it and the
\* slot, so that two observations are equal only if they are the same
\* observation.
Obs(e, t, i) == <<e, t, i>>
ZeroObs == <<0, 0, 0>>

\* SequentialVectorEnv.reset_all: every slot starts its first episode.
EnvInit(n, lens) ==
    [ep_len |-> lens,
     slots |-> [i \in 1..n |-> [episode |-> 1, t |-> 0, done |-> FALSE]],
     stepped_done |-> FALSE,
     last_width |-> n]

EnvObs(env, i) == Obs(env.slots[i].episode, env.slots[i].t, i)

\* SequentialVectorEnv.reset(i): slot i starts its next episode.
EnvReset(env, i) ==
    [env EXCEPT !.slots[i] = [episode |-> @.episode + 1, t |-> 0, done |-> FALSE]]

\* reward of slot i for taking `action` at its current position
EnvReward(env, i, action) == env.slots[i].t + 1 + action

\* SequentialVectorEnv.step(actions): every slot advances by one timestep; an
\* episode of slot i ends after ep_len[i] steps.
EnvStep(env, actions) ==
    [env EXCEPT
        !.slots = [i \in DOMAIN env.slots |->
                     [episode |-> env.slots[i].episode,
                      t |-> env.slots[i].t + 1,
                      done |-> env.slots[i].t + 1 >= env.ep_len[i]]],
        !.stepped_done = @ \/ (\E i \in DOMAIN env.slots : env.slots[i].done),
        !.last_width = Len(actions)]

\* --------------------------------------------- slot preprocessor (stand-in)
\* A preprocessor stack with memory: it stacks the previous frame under the
\* current one; after reset() the first frame is stacked under itself.
PreprocessorReset == <<>>

PreprocessOut(mem, raw) == IF mem = <<>> THEN <<raw, raw>> ELSE <<mem[1], raw>>

PreprocessMem(mem, raw) == <<raw>>

\* zero_batched_state: one all-zero row of the preprocessed state space
ZeroState == IF cfg.preprocessing THEN <<ZeroObs, ZeroObs>> ELSE ZeroObs

\* ------------------------------------------------------- policy (stand-in)
\* A deterministic policy: with stacked frames it acts on whether the frame
\* changed, without preprocessing on the position in the episode.
Policy(s) ==
    IF cfg.preprocessing THEN (IF s[1] = s[2] THEN 1 ELSE 0) ELSE s[2] % 2

\* Agent.get_action(states, use_exploration, apply_preprocessing=False): one
\* action per row of the state batch.
AgentGetAction(states, use_exploration) == [i \in DOMAIN states |-> Policy(states[i])]

\* ------------------------------------------------------------ the worker
\* The whole state but the configuration, as one record: w = self, e =
\* self.vector_env, c = the locals of the call, b = the lists handed to the
\* post-processing, s = the returned sample, g = the observer.
M == [w |-> worker, e |-> vector_env, c |-> call, pc |-> pc,
      b |-> batch_in, s |-> sample, g |-> trace]

NoBatch == [states |-> <<>>, actions |-> <<>>, rewards |-> <<>>,
            next_states |-> <<>>, terminals |-> <<>>]

NoSample == [states |-> <<>>, actions |-> <<>>, rewards |-> <<>>,
             terminals |-> <<>>, next_states |-> <<>>,
             importance_weights |-> <<>>, batch_size |-> 0,
             timesteps_executed |-> 0]

\* the locals of a call that has not started
NoCall(n) ==
    [num_timesteps |-> 0, max_timesteps_per_episode |-> 0,
     use_exploration |-> TRUE, break_on_terminal |-> FALSE,
     timesteps_executed |-> 0, episodes_executed |-> Repeat(0, n),
     env_frames |-> 0,
     sample_states |-> Repeat(<<>>, n), sample_actions |-> Repeat(<<>>, n),
     sample_rewards |-> Repeat(<<>>, n), sample_terminals |-> Repeat(<<>>, n),
     env_states |-> Repeat(ZeroObs, n),
     next_states |-> Repeat(Repeat(ZeroObs, n), n),
     terminals |-> Repeat(FALSE, n)]

\* lines 54, 77-81: the assertions of the constructor (the backend is ray)
ConstructorAccepts(c) ==
    c.ray_exploration # <<>> => c.decay_type = "constant_decay"

\* lines 82-84: self.exploration_epsilon is assigned only when ray_exploration
\* is given and the worker executes exploration; <<>> is "never assigned"
ExplorationEpsilon(c) ==
    IF c.ray_exploration # <<>> /\ c.worker_executes_exploration
    THEN c.ray_exploration ELSE <<>>

\* lines 77-87: the exploration_spec the agent is built with
AgentExplorationSpec(c) ==
    IF c.ray_exploration = <<>> THEN "as_configured"
    ELSE IF c.worker_executes_exploration THEN "none"
    ELSE "constant_epsilon"

\* (mutant) every slot is given the same preprocessor stack
SetupPreprocessor_shared(created) == 1

\* setup_preprocessor, lines 144-164: every call builds a new PreprocessorStack
\* from a copy of the spec; `created` stacks exist already, the new one is
\* the next. self.preprocessors[env_id] refers to the stack (pp_of), and the
\* memory of the stacks is kept per stack (preprocessors).
SetupPreprocessor(created) == created + 1

\* RayWorker.__init__: the fields after construction.
WorkerInit(n, env) ==
    [last_states |-> [i \in 1..n |-> EnvObs(env, i)],
     last_ep_rewards |-> Repeat(0, n),
     last_ep_timesteps |-> Repeat(0, n),
     last_terminals |-> Repeat(FALSE, n),
     finished_episode_rewards |-> Repeat(<<>>, n),
     finished_episode_timesteps |-> Repeat(<<>>, n),
     total_worker_steps |-> 0,
     episodes_executed |-> 0,
     sample_steps |-> <<>>,
     sample_times |-> <<>>,
     sample_env_frames |-> <<>>,
     exploration_epsilon |-> ExplorationEpsilon(cfg),
     agent_exploration_spec |-> AgentExplorationSpec(cfg),
     pp_of |-> [i \in 1..n |-> SetupPreprocessor(i - 1)],
     preprocessors |-> Repeat(PreprocessorReset, n)]

\* no reply of get_action / get_workload_statistics is pending
NoReply == [kind |-> "none"]

\* the observer after construction: setup_preprocessor resets each stack once;
\* fed = the raw states fed to each stack since its last reset, pp_events = the
\* preprocessor events of each slot since its last finalization, aligned = every
\* call so far asked for a multiple of N timesteps without break_on_terminal,
\* action_src = where the actions of each loop iteration of the call came
\* from, loop_draws = the epsilon draws the worker made in the call's loop,
\* reply = what the last get_action / get_workload_statistics returned,
\* slot_steps / slot_rewards = how often each slot was stepped by
\* vector_env.step since construction and the sum of the step rewards it got,
\* before = the worker as the call in progress (or the call that raised)
\* found it, failures = the calls that ended in an exception, calls = the
\* calls of execute_and_get_timesteps begun since construction
TraceInit(n) ==
    [fed |-> Repeat(<<>>, n),
     pp_events |-> Repeat(<<"reset">>, n),
     slot_of |-> <<>>,
     step_of |-> <<>>,
     nstep_reads |-> {},
     aligned |-> TRUE,
     action_src |-> <<>>,
     loop_draws |-> 0,
     reply |-> NoReply,
     slot_steps |-> Repeat(0, n),
     slot_rewards |-> Repeat(0, n),
     before |-> <<>>,
     failures |-> 0,
     calls |-> 0]

\* execute_and_get_timesteps, lines 210-232: the locals of a new call.
\* env_states, current_episode_rewards and current_episode_timesteps are the
\* worker's own lists (the running counters are updated in place in w).
CallBegin(m, num, max_ts, explore, brk) ==
    [m EXCEPT
        !.c = [NoCall(Len(m.w.last_states)) EXCEPT
                 !.num_timesteps = num,
                 !.max_timesteps_per_episode = max_ts,
                 !.use_exploration = explore,
                 !.break_on_terminal = brk,
                 !.env_states = m.w.last_states],
        !.g.aligned = @ /\ ~brk /\ num >= 0 /\ num % Len(m.w.last_states) = 0,
        !.g.action_src = <<>>,
        !.g.loop_draws = 0,
        !.g.reply = NoReply,
        !.g.before = <<m.w>>,
        !.g.calls = @ + 1,
        !.pc = "while"]

\* lines 235-240: the slots i.. in turn: the current state of the slot goes
\* through the slot's stack into the buffer
RECURSIVE PreprocessSlots(_, _, _)
PreprocessSlots(m, i, buffer) ==
    IF i > Len(m.c.env_states) THEN [m |-> m, buffer |-> buffer]
    ELSE IF cfg.preprocessing
    THEN LET stack == m.w.pp_of[i]
             raw == m.c.env_states[i]
         IN  PreprocessSlots(
                 [m EXCEPT !.w.preprocessors[stack] = PreprocessMem(@, raw),
                           !.g.fed[i] = Append(@, raw),
                           !.g.pp_events[i] = Append(@, "pre")],
                 i + 1,
                 Append(buffer, PreprocessOut(m.w.preprocessors[stack], raw)))
    ELSE PreprocessSlots(m, i + 1, Append(buffer, m.c.env_states[i]))

\* lines 235-240: self.preprocessed_states_buffer after the for loop
PreprocessedBuffer(m) == PreprocessSlots(m, 1, <<>>).buffer

\* lines 235-240: the worker after the for loop
PreprocessAll(m) == PreprocessSlots(m, 1, <<>>).m

\* RayWorker.get_action, lines 451-461. draw is the value of
\* np.random.random() and epsilon the exploration_epsilon, both in tenths;
\* sampled is what action_space.sample returns.
WorkerGetAction(w, states, use_exploration, draw, sampled) ==
    IF cfg.worker_executes_exploration
    THEN IF w.exploration_epsilon = <<>>
         THEN [kind |-> "get_action", error |-> "AttributeError", source |-> "none",
               actions |-> <<>>, policy_explore |-> FALSE,
               caller_explore |-> use_exploration, draws |-> 0]
         ELSE IF draw <= w.exploration_epsilon[1]
         THEN [kind |-> "get_action", error |-> "", source |-> "sample",
               actions |-> sampled, policy_explore |-> FALSE,
               caller_explore |-> use_exploration, draws |-> 1]
         ELSE [kind |-> "get_action", error |-> "", source |-> "policy",
               actions |-> AgentGetAction(states, use_exploration),
               policy_explore |-> use_exploration,
               caller_explore |-> use_exploration, draws |-> 1]
    ELSE [kind |-> "get_action", error |-> "", source |-> "policy",
          actions |-> AgentGetAction(states, use_exploration),
          policy_explore |-> use_exploration,
          caller_explore |-> use_exploration, draws |-> 0]

\* lines 243-244: the loop asks the agent itself for the actions, with the
\* caller's use_exploration; RayWorker.get_action is not on this path
LoopGetAction(m, buffer) ==
    [actions |-> AgentGetAction(buffer, m.c.use_exploration),
     source |-> "policy", draws |-> 0]

\* line 261: the timesteps one lockstep step adds
TimestepsPerStep == cfg.num_environments

\* line 275: does the episode of a slot end with this step
ShouldFinalize(terminal, max_ts, ep_timesteps) ==
    terminal \/ (0 < max_ts /\ max_ts <= ep_timesteps)

\* (mutant) one finalization per cause: a record for the terminal and another
\* for the cutoff when both fall on the same timestep
FinalizeEpisode_perCause(m, i) ==
    LET both == m.c.terminals[i] /\ 0 < m.c.max_timesteps_per_episode
                 /\ m.c.max_timesteps_per_episode <= m.w.last_ep_timesteps[i]
        n == IF both THEN 2 ELSE 1
    IN  [m EXCEPT
            !.w.finished_episode_rewards[i] = @ \o Repeat(m.w.last_ep_rewards[i], n),
            !.w.finished_episode_timesteps[i] = @ \o Repeat(m.w.last_ep_timesteps[i], n),
            !.c.episodes_executed[i] = @ + n,
            !.w.episodes_executed = @ + n,
            !.g.pp_events[i] = <<"final">>]

\* lines 278-281: push the EpisodeRecord and count the episode
FinalizeEpisode(m, i) ==
    [m EXCEPT
        !.w.finished_episode_rewards[i] = Append(@, m.w.last_ep_rewards[i]),
        !.w.finished_episode_timesteps[i] = Append(@, m.w.last_ep_timesteps[i]),
        !.c.episodes_executed[i] = @ + 1,
        !.w.episodes_executed = @ + 1,
        !.g.pp_events[i] = <<"final">>]

\* (mutant) the finished slot is not reset
ResetEnvironment_skip(m, i) == m

\* line 284: env_states[i] = self.vector_env.reset(i); next_states is the
\* same list object as env_states (line 263), so it sees the reset state too
ResetEnvironment(m, i) ==
    LET env == EnvReset(m.e, i) IN
    [m EXCEPT !.e = env,
              !.c.env_states[i] = EnvObs(env, i),
              !.c.next_states[i] = <<EnvObs(env, i)>>]

\* (mutant) the preprocessor of the finished slot is not reset
ResetPreprocessor_skip(m, i) == m

\* lines 285-286: reset the slot's preprocessor stack, if there is one
ResetPreprocessor(m, i) ==
    IF cfg.preprocessing
    THEN [m EXCEPT !.w.preprocessors[m.w.pp_of[i]] = PreprocessorReset,
                   !.g.fed[i] = <<>>,
                   !.g.pp_events[i] = Append(@, "reset")]
    ELSE m

\* (mutant) the running reward and length run on into the next episode
ClearRunning_keep(m, i) == m

\* lines 287-288: the running reward and length start again at zero
ClearRunning(m, i) ==
    [m EXCEPT !.w.last_ep_rewards[i] = 0, !.w.last_ep_timesteps[i] = 0]

\* lines 268-288: the accounting of one slot for one step
Account(m, i, reward, terminal) ==
    LET m1 == [m EXCEPT
                 !.w.last_ep_timesteps[i] = @ + 1,
                 !.w.last_ep_rewards[i] = @ + reward,
                 !.c.sample_rewards[i] = Append(@, reward),
                 !.c.sample_terminals[i] = Append(@, terminal)]
    IN  IF ShouldFinalize(terminal, m.c.max_timesteps_per_episode,
                          m1.w.last_ep_timesteps[i])
        THEN ClearRunning(ResetPreprocessor(ResetEnvironment(FinalizeEpisode(m1, i), i), i), i)
        ELSE m1

\* lines 266-288: the accounting loop over the slots i..N
RECURSIVE AccountFrom(_, _, _, _)
AccountFrom(m, i, rewards, terminals) ==
    IF i > Len(rewards) THEN m
    ELSE AccountFrom(Account(m, i, rewards[i], terminals[i]), i + 1, rewards, terminals)

\* (mutant) the break ignores the timestep budget
BreakCondition_terminalOnly(c, terminals) ==
    c.break_on_terminal /\ \E i \in DOMAIN terminals : terminals[i]

\* (mutant) the break ignores break_on_terminal
BreakCondition_budgetOnly(c, terminals) ==
    0 < c.num_timesteps /\ c.num_timesteps <= c.timesteps_executed

\* line 290: the call stops after this step
BreakCondition(c, terminals) ==
    (0 < c.num_timesteps /\ c.num_timesteps <= c.timesteps_executed)
    \/ (c.break_on_terminal /\ \E i \in DOMAIN terminals : terminals[i])

\* (mutant) the loop is left by its break alone
WhileCondition_untilBreak(c) == c.timesteps_executed >= 0

\* (mutant) the loop condition is off by one
WhileCondition_inclusive(c) == c.timesteps_executed <= c.num_timesteps

\* line 233: the loop condition
WhileCondition(c) == c.timesteps_executed < c.num_timesteps

\* lines 234-292: one iteration of the collection loop
LoopBody(m) ==
    LET buffer == PreprocessedBuffer(m)
        m1 == PreprocessAll(m)
        got == LoopGetAction(m, buffer)
        actions == got.actions
        env == EnvStep(m.e, actions)
        step_rewards == [i \in DOMAIN actions |-> EnvReward(m.e, i, actions[i])]
        terminals == [i \in DOMAIN actions |-> env.slots[i].done]
        next_states == [i \in DOMAIN actions |-> EnvObs(env, i)]
        m2 == [m1 EXCEPT
                 !.e = env,
                 !.g.action_src = Append(@, got.source),
                 !.g.loop_draws = @ + got.draws,
                 !.g.slot_steps = [i \in DOMAIN @ |-> @[i] + 1],
                 !.g.slot_rewards = [i \in DOMAIN @ |-> @[i] + step_rewards[i]],
                 !.c.sample_states = [i \in DOMAIN @ |-> Append(@[i], buffer[i])],
                 !.c.sample_actions = [i \in DOMAIN @ |-> Append(@[i], actions[i])],
                 !.c.terminals = terminals,
                 !.c.timesteps_executed = @ + TimestepsPerStep,
                 !.c.env_frames = @ + cfg.num_environments,
                 !.c.env_states = next_states,
                 !.c.next_states = [i \in DOMAIN actions |-> <<next_states[i]>>]]
        m3 == AccountFrom(m2, 1, step_rewards, terminals)
    IN  IF BreakCondition(m3.c, terminals)
        THEN [m3 EXCEPT !.w.total_worker_steps = @ + m3.c.timesteps_executed,
                        !.pc = "after"]
        ELSE m3

\* ------------------------------------------------------ post-processing
\* (mutant) the window stops in front of a terminal transition instead of
\* behind it
RECURSIVE NStepWindow_breakFirst(_, _, _, _)
NStepWindow_breakFirst(b, i, j, k) ==
    IF j > k - 1 \/ b.terminals[i + j] THEN b
    ELSE NStepWindow_breakFirst(
             [b EXCEPT !.next_states[i] = b.next_states[i + j],
                       !.rewards[i] = @ + Pow(discount, j) * b.rewards[i + j],
                       !.reads = @ \cup {<<i, i + j>>}], i, j + 1, k)

\* lines 411-417: the window of transition i, from offset j on. `reads`
\* records which later transition each rewritten transition took from.
RECURSIVE NStepWindow(_, _, _, _)
NStepWindow(b, i, j, k) ==
    IF j > k - 1 THEN b
    ELSE LET b1 == [b EXCEPT
                      !.next_states[i] = b.next_states[i + j],
                      !.rewards[i] = @ + Pow(discount, j) * b.rewards[i + j],
                      !.reads = @ \cup {<<i, i + j>>}]
         IN  IF b.terminals[i + j] THEN b1 ELSE NStepWindow(b1, i, j + 1, k)

\* (mutant) the rewrite does not skip the terminal transitions
RECURSIVE NStepAdjust_rewriteTerminals(_, _, _)
NStepAdjust_rewriteTerminals(b, i, k) ==
    IF i > Len(b.rewards) - k + 1 THEN b
    ELSE NStepAdjust_rewriteTerminals(NStepWindow(b, i, 1, k), i + 1, k)

\* lines 407-417: the rewrite of the transitions i.. of the flat batch
RECURSIVE NStepAdjust(_, _, _)
NStepAdjust(b, i, k) ==
    IF i > Len(b.rewards) - k + 1 THEN b
    ELSE NStepAdjust(IF b.terminals[i] THEN b ELSE NStepWindow(b, i, 1, k), i + 1, k)

\* line 420
NewLen(b, k) == Len(b.states) - k + 1

\* lines 420-422: every list is cut at new_len
Truncate(b, k) ==
    [b EXCEPT !.states = DelFrom(@, NewLen(b, k)),
              !.actions = DelFrom(@, NewLen(b, k)),
              !.rewards = DelFrom(@, NewLen(b, k)),
              !.next_states = DelFrom(@, NewLen(b, k)),
              !.terminals = DelFrom(@, NewLen(b, k))]

\* lines 406-422
NStepProcess(b, k) ==
    IF k > 1 THEN Truncate(NStepAdjust(b, 1, k), k) ELSE b

\* Agent.get_td_loss: a loss per transition handed over (stand-in). A float
\* is the record [kind, v]: kind "finite" with the value v, or "nan" / "inf".
\* An agent whose loss degenerates returns a non-finite loss for the
\* transitions with an even reward.
TdLossPerItem(b) ==
    [i \in DOMAIN b.rewards |->
        IF cfg.td_loss = "finite" \/ b.rewards[i] % 2 = 1
        THEN [kind |-> "finite", v |-> b.rewards[i] - 2]
        ELSE [kind |-> cfg.td_loss, v |-> 0]]

\* (mutant) the loss keeps its sign
AbsPlusFloor_signed(loss) ==
    IF loss.kind = "finite"
    THEN [kind |-> "finite", abs |-> loss.v, floor |-> 1]
    ELSE [kind |-> loss.kind, abs |-> 0, floor |-> 0]

\* line 440: np.abs(loss) + SMALL_NUMBER. A finite weight a + f * SMALL_NUMBER
\* is the record [abs |-> a, floor |-> f]; abs(nan) + f is nan, abs(inf) + f
\* is inf.
AbsPlusFloor(loss) ==
    IF loss.kind = "finite"
    THEN [kind |-> "finite", abs |-> Abs(loss.v), floor |-> 1]
    ELSE [kind |-> loss.kind, abs |-> 0, floor |-> 0]

\* line 424: np.ones_like(rewards)
OnesLike(rewards) == [i \in DOMAIN rewards |-> [kind |-> "finite", abs |-> 1, floor |-> 0]]

\* lines 424-440
PriorityWeights(b, computes) ==
    IF computes
    THEN [i \in DOMAIN TdLossPerItem(b) |-> AbsPlusFloor(TdLossPerItem(b)[i])]
    ELSE OnesLike(b.rewards)

\* ray_compress: the codec's output wraps what it compressed (stand-in)
RayCompress(x) == [compressed |-> x]

\* _process_sample_if_necessary, lines 406-449: the sample batch, its size,
\* and (for the observer) the reads of the n-step rewrite
ProcessSample(batch, k, computes) ==
    LET b == NStepProcess([states |-> batch.states, actions |-> batch.actions,
                           rewards |-> batch.rewards,
                           next_states |-> batch.next_states,
                           terminals |-> batch.terminals, reads |-> {}], k) IN
    [states |-> [i \in DOMAIN b.states |-> RayCompress(b.states[i])],
     actions |-> b.actions,
     rewards |-> b.rewards,
     terminals |-> b.terminals,
     next_states |-> [i \in DOMAIN b.next_states |-> RayCompress(b.next_states[i])],
     importance_weights |-> PriorityWeights(b, computes),
     batch_size |-> Len(b.rewards),
     reads |-> b.reads]

\* ------------------------------------------------------- end of the call
\* lines 313-319: the rows appended as the last next_state of slot i
LastNextState(m, i) ==
    IF m.c.terminals[i] THEN <<ZeroState>>
    ELSE IF cfg.preprocessing
         THEN [r \in DOMAIN m.c.next_states[i] |->
                  PreprocessOut(m.w.preprocessors[m.w.pp_of[i]], m.c.next_states[i][r])]
         ELSE m.c.next_states[i]

\* line 319: the preprocess call of slot i at the end of the call
FeedLastNextState(m, i) ==
    IF ~m.c.terminals[i] /\ cfg.preprocessing
    THEN [m EXCEPT !.w.preprocessors[m.w.pp_of[i]] = PreprocessMem(@, Last(m.c.next_states[i])),
                   !.g.fed[i] = @ \o m.c.next_states[i],
                   !.g.pp_events[i] = Append(@, "pre")]
    ELSE m

RECURSIVE FeedLastFrom(_, _)
FeedLastFrom(m, i) ==
    IF i > Len(m.c.terminals) THEN m ELSE FeedLastFrom(FeedLastNextState(m, i), i + 1)

\* (mutant) the lists are merged step by step: the transitions of all slots
\* for the first step, then those for the second step, ...
MergeBatch_byStep(m) ==
    LET n == Len(m.c.sample_states)
        Weave(ss) == IF Len(ss[1]) = 0 THEN Flatten(ss)
                     ELSE [x \in 1..(n * Len(ss[1])) |->
                              ss[((x - 1) % n) + 1][((x - 1) \div n) + 1]]
    IN  [states |-> Weave(m.c.sample_states),
         actions |-> Weave(m.c.sample_actions),
         rewards |-> Weave(m.c.sample_rewards),
         next_states |-> Weave([i \in DOMAIN m.c.sample_states |->
                            DropFirst(m.c.sample_states[i]) \o LastNextState(m, i)]),
         terminals |-> Weave(m.c.sample_terminals)]

\* (mutant) every slot's lists are merged newest first
MergeBatch_newestFirst(m) ==
    LET Rev(q) == [j \in 1..Len(q) |-> q[Len(q) + 1 - j]] IN
    [states |-> Flatten([i \in DOMAIN m.c.sample_states |-> Rev(m.c.sample_states[i])]),
     actions |-> Flatten([i \in DOMAIN m.c.sample_states |-> Rev(m.c.sample_actions[i])]),
     rewards |-> Flatten([i \in DOMAIN m.c.sample_states |-> Rev(m.c.sample_rewards[i])]),
     next_states |-> Flatten([i \in DOMAIN m.c.sample_states |->
                        Rev(DropFirst(m.c.sample_states[i]) \o LastNextState(m, i))]),
     terminals |-> Flatten([i \in DOMAIN m.c.sample_states |-> Rev(m.c.sample_terminals[i])])]

\* lines 304-326: the per-slot lists merged into one flat batch
MergeBatch(m) ==
    [states |-> Flatten(m.c.sample_states),
     actions |-> Flatten(m.c.sample_actions),
     rewards |-> Flatten(m.c.sample_rewards),
     next_states |-> Flatten([i \in DOMAIN m.c.sample_states |->
                        DropFirst(m.c.sample_states[i]) \o LastNextState(m, i)]),
     terminals |-> Flatten(m.c.sample_terminals)]

\* which slot each transition of the flat batch came from (observer)
SlotOfBatch(m) ==
    Flatten([i \in DOMAIN m.c.sample_states |-> Repeat(i, Len(m.c.sample_states[i]))])

\* the loop iteration of the call each transition of the flat batch was
\* recorded in (observer)
StepOfBatch(m) ==
    Flatten([i \in DOMAIN m.c.sample_states |->
                [j \in 1..Len(m.c.sample_states[i]) |-> j]])

\* lines 294-343: the carry state is stored, the batch merged and processed.
\* total_time (line 299) is some positive duration: "positive".
ReturnCall(m) ==
    LET batch == MergeBatch(m)
        out == ProcessSample(batch, cfg.n_step_adjustment, cfg.worker_computes_weights)
        m1 == FeedLastFrom(m, 1)
    IN  [m1 EXCEPT
            !.w.last_terminals = m.c.terminals,
            !.w.last_states = m.c.env_states,
            !.w.sample_steps = Append(@, m.c.timesteps_executed),
            !.w.sample_times = Append(@, "positive"),
            !.w.sample_env_frames = Append(@, m.c.env_frames),
            !.b = batch,
            !.s = [states |-> out.states, actions |-> out.actions,
                   rewards |-> out.rewards, terminals |-> out.terminals,
                   next_states |-> out.next_states,
                   importance_weights |-> out.importance_weights,
                   batch_size |-> out.batch_size,
                   timesteps_executed |-> m.c.timesteps_executed],
            !.g.slot_of = SlotOfBatch(m),
            !.g.step_of = StepOfBatch(m),
            !.g.nstep_reads = out.reads,
            !.g.before = <<>>,
            !.pc = "idle"]

\* lines 235-244: agent.get_action raises in an iteration. The slots'
\* states have gone through the preprocessors already (lines 235-240); the
\* exception leaves execute_and_get_timesteps at line 243, which has no
\* try / except / finally: lines 245-343 do not run, and the locals are lost
\* (they are kept here for the observer).
GetActionRaises(m) ==
    [PreprocessAll(m) EXCEPT
        !.g.reply = [kind |-> "raised", error |-> "PolicyError"],
        !.g.failures = @ + 1,
        !.pc = "idle"]

\* the loop from its condition to its exit
RECURSIVE RunLoop(_)
RunLoop(m) ==
    IF m.pc = "while" /\ WhileCondition(m.c) THEN RunLoop(LoopBody(m))
    ELSE [m EXCEPT !.pc = "after"]

\* one whole call of execute_and_get_timesteps
ExecuteAndGetTimesteps(m, num, max_ts, explore, brk) ==
    ReturnCall(RunLoop(CallBegin(m, num, max_ts, explore, brk)))

\* ------------------------------------------------------------ the machine
NumTimestepsSet == -1..MaxTimesteps
CutoffSet == {0, 1, 2}

Install(m) ==
    /\ worker' = m.w
    /\ vector_env' = m.e
    /\ call' = m.c
    /\ pc' = m.pc
    /\ batch_in' = m.b
    /\ sample' = m.s
    /\ trace' = m.g
    /\ UNCHANGED cfg

\* the episode lengths of the slots: slot 1 has length `first`, every next
\* slot one more, wrapping around at MaxEpisodeLen
EpisodeLengths(n, first) == [i \in 1..n |-> ((first + i - 2) % MaxEpisodeLen) + 1]

\* the constructor arguments; what is not given here keeps the default of
\* lines 59-75 (no ray_exploration, worker_executes_exploration False), and
\* worker_sample_size, which has no default, is one lockstep step
WorkerSpec(n, k, pp, cw, loss) ==
    [num_environments |-> n, n_step_adjustment |-> k,
     preprocessing |-> pp, worker_computes_weights |-> cw,
     td_loss |-> loss,
     worker_sample_size |-> n,
     ray_exploration |-> <<>>,
     worker_executes_exploration |-> FALSE,
     decay_type |-> "constant_decay"]

\* worker_computes_weights keeps the source's default (True, line 60)
Init ==
    /\ \E n \in 1..MaxEnvs, k \in 1..MaxNStep, pp \in BOOLEAN :
         cfg = WorkerSpec(n, k, pp, TRUE, "finite")
    /\ \E first \in 1..MaxEpisodeLen :
         vector_env = EnvInit(cfg.num_environments, EpisodeLengths(cfg.num_environments, first))
    /\ worker = WorkerInit(cfg.num_environments, vector_env)
    /\ call = NoCall(cfg.num_environments)
    /\ pc = "idle"
    /\ batch_in = NoBatch
    /\ sample = NoSample
    /\ trace = TraceInit(cfg.num_environments)

\* the coordinator calls execute_and_get_timesteps
Collect ==
    /\ pc = "idle"
    /\ Len(worker.sample_steps) < MaxCalls
    /\ \E num \in NumTimestepsSet, max_ts \in CutoffSet, brk \in BOOLEAN :
         Install(CallBegin(M, num, max_ts, TRUE, brk))

\* one iteration of the while loop
Iterate ==
    /\ pc = "while"
    /\ WhileCondition(call)
    /\ Install(LoopBody(M))

\* the loop condition fails
ExitWhile ==
    /\ pc = "while"
    /\ ~WhileCondition(call)
    /\ Install([M EXCEPT !.pc = "after"])

\* the call stores the carry state and returns its sample
Return ==
    /\ pc = "after"
    /\ Install(ReturnCall(M))

Next == Collect \/ Iterate \/ ExitWhile \/ Return

Spec == Init /\ [][Next]_vars

\* the workers with n_step_adjustment at its default (line 61); the
\* collection loop does not read it
InitLive == Init /\ cfg.n_step_adjustment = 1

\* The worker is single-threaded and synchronous: once a call has started,
\* the loop and the rest of the call run on (every environment step / reset
\* and policy call returns); when the coordinator calls is up to it.
\* This is weak fairness of Iterate, ExitWhile and Return, each written with
\* the action's enabling condition spelled out (WF_vars(A) is
\* []<>~ENABLED <<A>>_vars \/ []<><<A>>_vars).
SpecLive ==
    /\ InitLive /\ [][Next]_vars
    /\ ([]<>(~(pc = "while" /\ WhileCondition(call))) \/ []<><<Iterate>>_vars)
    /\ ([]<>(~(pc = "while" /\ ~WhileCondition(call))) \/ []<><<ExitWhile>>_vars)
    /\ ([]<>(~(pc = "after")) \/ []<><<Return>>_vars)

\* the worker whose policy can fail: agent.get_action raises in some
\* iteration of a call, and the exception propagates to the coordinator
PolicyRaises ==
    /\ pc = "while"
    /\ WhileCondition(call)
    /\ trace.failures < MaxFailures
    /\ Install(GetActionRaises(M))

NextFail == Collect \/ Iterate \/ ExitWhile \/ Return \/ PolicyRaises

SpecFail == Init /\ [][NextFail]_vars

\* ----------------------------------------- the post-processing on its own
RewardSet == {1, 2}

\* what the agent's loss computation can return for a transition
LossKinds == {"finite", "nan", "inf"}

\* a collected batch of length len: transition i has state i and next state i+1
BatchesOfLen(len) ==
    {[states |-> [i \in 1..len |-> i],
      actions |-> [i \in 1..len |-> 0],
      rewards |-> r,
      next_states |-> [i \in 1..len |-> i + 1],
      terminals |-> t] :
        r \in [1..len -> RewardSet], t \in [1..len -> BOOLEAN]}

InitProcess ==
    /\ \E k \in 1..MaxWindow, cw \in BOOLEAN, loss \in LossKinds :
         cfg = WorkerSpec(1, k, FALSE, cw, loss)
    /\ vector_env = EnvInit(1, <<1>>)
    /\ worker = WorkerInit(1, vector_env)
    /\ call = NoCall(1)
    /\ pc = "process"
    /\ \E len \in 0..MaxBatchLen : batch_in \in BatchesOfLen(len)
    /\ sample = NoSample
    /\ trace = TraceInit(1)

\* _process_sample_if_necessary is applied to the batch
ProcessAlone ==
    /\ pc = "process"
    /\ LET out == ProcessSample(batch_in, cfg.n_step_adjustment,
                                cfg.worker_computes_weights)
       IN  /\ sample' = [states |-> out.states, actions |-> out.actions,
                         rewards |-> out.rewards, terminals |-> out.terminals,
                         next_states |-> out.next_states,
                         importance_weights |-> out.importance_weights,
                         batch_size |-> out.batch_size,
                         timesteps_executed |-> 0]
           /\ trace' = [trace EXCEPT !.nstep_reads = out.reads]
    /\ pc' = "processed"
    /\ UNCHANGED <<cfg, worker, vector_env, call, batch_in>>

SpecProcess == InitProcess /\ [][ProcessAlone]_vars

\* ------------------------------------------------ the actor's other methods
RECURSIVE SumSeq(_)
SumSeq(q) == IF q = <<>> THEN 0 ELSE Head(q) + SumSeq(Tail(q))

\* np.min / np.max of a non-empty list
MinOf(q) == CHOOSE x \in {q[j] : j \in DOMAIN q} : \A j \in DOMAIN q : x <= q[j]
MaxOf(q) == CHOOSE x \in {q[j] : j \in DOMAIN q} : \A j \in DOMAIN q : x >= q[j]

\* get_workload_statistics, lines 353-389. None is <<>> and a value v is <<v>>;
\* a mean is the pair of its sum and its count; every call of
\* execute_and_get_timesteps adds a positive time to sample_times. The
\* outcome is the returned dict or the exception the method ends with.
WorkloadStatistics(w) ==
    LET all == Flatten(w.finished_episode_rewards)
        failed(e) == [kind |-> "statistics", error |-> e]
    IN  IF Len(w.finished_episode_rewards) > 0
        THEN IF all = <<>>
             THEN failed("ValueError")        \* np.min of an empty list
             ELSE IF \E i \in DOMAIN w.finished_episode_rewards :
                         w.finished_episode_rewards[i] = <<>>
             THEN failed("IndexError")        \* env_rewards[-1] of an empty list
             ELSE IF Len(w.sample_steps) = 0
             THEN failed("ZeroDivisionError") \* sum(self.sample_times) is 0
             ELSE [kind |-> "statistics", error |-> "",
                   episode_timesteps |-> w.finished_episode_timesteps,
                   episode_rewards |-> w.finished_episode_rewards,
                   min_episode_reward |-> <<MinOf(all)>>,
                   max_episode_reward |-> <<MaxOf(all)>>,
                   mean_episode_reward |-> <<[sum |-> SumSeq(all), n |-> Len(all)]>>,
                   final_episode_reward |->
                       <<[sum |-> SumSeq([i \in DOMAIN w.finished_episode_rewards |->
                                             Last(w.finished_episode_rewards[i])]),
                          n |-> Len(w.finished_episode_rewards)]>>,
                   episodes_executed |-> w.episodes_executed,
                   worker_steps |-> w.total_worker_steps,
                   steps |-> SumSeq(w.sample_steps),
                   env_frames |-> SumSeq(w.sample_env_frames)]
        ELSE IF Len(w.sample_steps) = 0
             THEN failed("ZeroDivisionError")
             ELSE [kind |-> "statistics", error |-> "",
                   episode_timesteps |-> w.finished_episode_timesteps,
                   episode_rewards |-> w.finished_episode_rewards,
                   min_episode_reward |-> <<>>,
                   max_episode_reward |-> <<>>,
                   mean_episode_reward |-> <<>>,
                   final_episode_reward |-> <<>>,
                   episodes_executed |-> w.episodes_executed,
                   worker_steps |-> w.total_worker_steps,
                   steps |-> SumSeq(w.sample_steps),
                   env_frames |-> SumSeq(w.sample_env_frames)]

\* the values of ray_exploration and of np.random.random(), in tenths
EpsilonSet == {5, 10}
DrawSet == {0, 9}
ActionSet == {0, 1}

\* the constructor is called with any worker_spec / agent_config; where its
\* assertions fail no worker exists (pc = "failed")
InitActor ==
    /\ \E n \in 1..MaxEnvs, k \in 0..MaxWindow, size \in 0..MaxTimesteps,
          local \in BOOLEAN, decay \in {"constant_decay", "linear_decay"},
          eps \in {<<>>} \cup {<<e>> : e \in EpsilonSet} :
         cfg = [WorkerSpec(n, k, FALSE, TRUE, "finite") EXCEPT
                   !.worker_sample_size = size,
                   !.ray_exploration = eps,
                   !.worker_executes_exploration = local,
                   !.decay_type = decay]
    /\ \E first \in 1..MaxEpisodeLen :
         vector_env = EnvInit(cfg.num_environments, EpisodeLengths(cfg.num_environments, first))
    /\ worker = WorkerInit(cfg.num_environments, vector_env)
    /\ call = NoCall(cfg.num_environments)
    /\ pc = IF ConstructorAccepts(cfg) THEN "idle" ELSE "failed"
    /\ batch_in = NoBatch
    /\ sample = NoSample
    /\ trace = TraceInit(cfg.num_environments)

\* execute_and_get_with_count, lines 346-348: a collect call of
\* worker_sample_size timesteps with the defaults of the other arguments
ExecuteAndGetWithCount ==
    /\ pc = "idle"
    /\ Len(worker.sample_steps) < MaxCalls
    /\ Install(CallBegin(M, cfg.worker_sample_size, 0, TRUE, FALSE))

\* get_action is called between two collect calls
GetAction ==
    /\ pc = "idle"
    /\ \E explore \in BOOLEAN, draw \in DrawSet,
          sampled \in [1..cfg.num_environments -> ActionSet] :
         trace' = [trace EXCEPT
                     !.reply = WorkerGetAction(worker, worker.last_states,
                                               explore, draw, sampled)]
    /\ UNCHANGED <<cfg, worker, vector_env, call, pc, batch_in, sample>>

\* get_workload_statistics is called between two collect calls
GetWorkloadStatistics ==
    /\ pc = "idle"
    /\ trace' = [trace EXCEPT !.reply = WorkloadStatistics(worker)]
    /\ UNCHANGED <<cfg, worker, vector_env, call, pc, batch_in, sample>>

NextActor ==
    \/ ExecuteAndGetWithCount \/ Iterate \/ ExitWhile \/ Return
    \/ GetAction \/ GetWorkloadStatistics

SpecActor == InitActor /\ [][NextActor]_vars

\* ------------------------------------------------------------ properties
\* a call has returned and its arguments are still in `call`
Returned == pc = "idle" /\ Len(worker.sample_steps) > 0

\* the smallest multiple of n that is >= x
SmallestMultipleAtLeast(n, x) ==
    CHOOSE v \in x..(x + n - 1) : \E q \in -(Abs(x) + 1)..(Abs(x) + 1) : v = q * n

\* C1 as stated: for any num_timesteps, a call with break_on_terminal=false
\* reports timesteps_executed = the smallest multiple of N that is >=
\* num_timesteps, which overshoots the request by at most N-1.
C1_AnyRequest ==
    (Returned /\ ~call.break_on_terminal) =>
        /\ sample.timesteps_executed
             = SmallestMultipleAtLeast(cfg.num_environments, call.num_timesteps)
        /\ sample.timesteps_executed - call.num_timesteps <= cfg.num_environments - 1

\* C1 amended: for num_timesteps >= 0 a call with break_on_terminal=false
\* reports the smallest multiple of N that is >= num_timesteps (a multiple of
\* N, at most N-1 above the request); for num_timesteps < 0 it reports 0.
C1_CollectedTimesteps ==
    (Returned /\ ~call.break_on_terminal) =>
        IF call.num_timesteps >= 0
        THEN /\ sample.timesteps_executed
                  = SmallestMultipleAtLeast(cfg.num_environments, call.num_timesteps)
             /\ \E q \in 0..call.num_timesteps :
                  sample.timesteps_executed = q * cfg.num_environments
             /\ sample.timesteps_executed - call.num_timesteps \in 0..(cfg.num_environments - 1)
        ELSE sample.timesteps_executed = 0

\* C1 witness: a returned call that overshot its request (N = 2, 3 asked, 4 done)
C1_Witness ==
    /\ Returned /\ ~call.break_on_terminal
    /\ cfg.num_environments = 2
    /\ call.num_timesteps = 3
    /\ sample.timesteps_executed = 4

\* the carry state and the episode histories a call leaves behind
CarryState(m) ==
    [last_states |-> m.w.last_states,
     last_ep_rewards |-> m.w.last_ep_rewards,
     last_ep_timesteps |-> m.w.last_ep_timesteps,
     last_terminals |-> m.w.last_terminals,
     total_worker_steps |-> m.w.total_worker_steps,
     episodes_executed |-> m.w.episodes_executed,
     finished_episode_rewards |-> m.w.finished_episode_rewards,
     finished_episode_timesteps |-> m.w.finished_episode_timesteps]

\* two consecutive calls with budgets t1 and t2 leave what one call with
\* budget t1 + t2 leaves
SplitEqualsSingle(m, t1, t2, max_ts) ==
    CarryState(ExecuteAndGetTimesteps(
                   ExecuteAndGetTimesteps(m, t1, max_ts, TRUE, FALSE), t2, max_ts, TRUE, FALSE))
    = CarryState(ExecuteAndGetTimesteps(m, t1 + t2, max_ts, TRUE, FALSE))

\* C2 as stated (resumability): from every state between calls, splitting a
\* budget T into two consecutive calls T1 + T2 = T (any split) leaves the
\* same carry state and the same finished EpisodeRecords as one call with T.
C2_Resumability ==
    pc = "idle" =>
        \A t1 \in 1..MaxTimesteps, t2 \in 1..MaxTimesteps, max_ts \in CutoffSet :
            SplitEqualsSingle(M, t1, t2, max_ts)

\* the aligned splits of C2 alone: T1 a multiple of N. Without preprocessing
\* they hold; with a preprocessor that has memory they fail (see C7).
C2_AlignedSplits ==
    pc = "idle" =>
        \A t1 \in 1..MaxTimesteps, t2 \in 1..MaxTimesteps, max_ts \in CutoffSet :
            t1 % cfg.num_environments = 0 => SplitEqualsSingle(M, t1, t2, max_ts)

\* C3 as stated: the n-step adjustment never crosses a slot boundary: every
\* transition whose reward / next_state is taken into a surviving transition
\* i belongs to the slot of transition i.
C3_NoSlotCrossing ==
    (Returned /\ cfg.n_step_adjustment > 1) =>
        \A rd \in trace.nstep_reads :
            rd[1] <= sample.batch_size => trace.slot_of[rd[1]] = trace.slot_of[rd[2]]

\* the post-processing has run on batch_in and produced sample
Processed == pc = "processed" \/ Returned

\* the window end m of C4: the smallest j in 0..k-1 with terminal[i+j], or k-1
WindowEnd(terminals, i, k) ==
    IF \E j \in 0..(k - 1) : terminals[i + j]
    THEN CHOOSE j \in 0..(k - 1) :
            terminals[i + j] /\ \A h \in 0..(j - 1) : ~terminals[i + h]
    ELSE k - 1

\* sum over j = 0..m of discount^j * r[i+j]
RECURSIVE DiscountedSum(_, _, _)
DiscountedSum(r, i, m) ==
    IF m = 0 THEN r[i] ELSE DiscountedSum(r, i, m - 1) + Pow(discount, m) * r[i + m]

\* C4 (n-step reward law): for k > 1 and every i in [0, L-k],
\* reward[i] = sum_{j=0..m} discount^j * r[i+j] over the original rewards and
\* next_state[i] = the original next_state[i+m], m the first terminal offset
\* of the window or k-1.
C4_NStepRewardLaw ==
    (Processed /\ cfg.n_step_adjustment > 1) =>
        \A i \in 1..(Len(batch_in.rewards) - cfg.n_step_adjustment + 1) :
            LET m == WindowEnd(batch_in.terminals, i, cfg.n_step_adjustment) IN
            /\ sample.rewards[i] = DiscountedSum(batch_in.rewards, i, m)
            /\ sample.next_states[i] = RayCompress(batch_in.next_states[i + m])

\* C4 witness: k = 3 and terminal[1] true, so reward[0] = r0 + discount * r1
C4_Witness ==
    /\ pc = "processed"
    /\ cfg.n_step_adjustment = 3
    /\ batch_in.terminals = <<FALSE, TRUE, FALSE>>
    /\ sample.rewards[1] = batch_in.rewards[1] + discount * batch_in.rewards[2]
    /\ sample.next_states[1] = RayCompress(batch_in.next_states[2])

\* C5 as stated (truncation): for k > 1 the emitted batch is exactly the
\* first L-(k-1) transitions, and it is empty whenever L < k.
C5_Truncation ==
    (Processed /\ cfg.n_step_adjustment > 1) =>
        LET L == Len(batch_in.rewards)
            keep == Max(L - (cfg.n_step_adjustment - 1), 0)
        IN  /\ sample.batch_size = keep
            /\ sample.actions = SubSeq(batch_in.actions, 1, keep)
            /\ sample.terminals = SubSeq(batch_in.terminals, 1, keep)
            /\ Len(sample.rewards) = keep
            /\ Len(sample.states) = keep

\* the step is one iteration of the collection loop
IterateStep == pc = "while" /\ call'.timesteps_executed > call.timesteps_executed

\* slot i's episode is finalized by the step: terminal, or the cutoff reached
FinalizedByStep(i) ==
    \/ call'.terminals[i]
    \/ /\ 0 < call.max_timesteps_per_episode
       /\ call.max_timesteps_per_episode <= worker.last_ep_timesteps[i] + 1

\* C6: every finalization event (terminal, cutoff, or both in one timestep)
\* appends exactly one EpisodeRecord (running_reward, running_length) to the
\* slot's history, the episode counter grows by one per event, and the slot's
\* running reward and length are (0, 0) right after; nothing else appends.
C6_OneRecordPerFinalization ==
    [][ /\ IterateStep =>
             /\ \A i \in Slots :
                  IF FinalizedByStep(i)
                  THEN /\ worker'.finished_episode_rewards[i]
                            = Append(worker.finished_episode_rewards[i],
                                     worker.last_ep_rewards[i] + Last(call'.sample_rewards[i]))
                       /\ worker'.finished_episode_timesteps[i]
                            = Append(worker.finished_episode_timesteps[i],
                                     worker.last_ep_timesteps[i] + 1)
                       /\ worker'.last_ep_rewards[i] = 0
                       /\ worker'.last_ep_timesteps[i] = 0
                  ELSE /\ worker'.finished_episode_rewards[i] = worker.finished_episode_rewards[i]
                       /\ worker'.finished_episode_timesteps[i] = worker.finished_episode_timesteps[i]
             /\ worker'.episodes_executed
                  = worker.episodes_executed + Cardinality({i \in Slots : FinalizedByStep(i)})
        /\ ~IterateStep =>
             /\ worker'.finished_episode_rewards = worker.finished_episode_rewards
             /\ worker'.finished_episode_timesteps = worker.finished_episode_timesteps
             /\ worker'.episodes_executed = worker.episodes_executed
      ]_vars

\* C6 witness: terminal and cutoff fell on the same timestep of a slot, one
\* record of that length was appended and the running counters are zero
C6_Witness ==
    /\ pc \in {"while", "after"}
    /\ \E i \in Slots :
         /\ call.terminals[i]
         /\ call.max_timesteps_per_episode > 0
         /\ Len(call.sample_terminals[i]) = call.max_timesteps_per_episode
         /\ call.episodes_executed[i] = 1
         /\ worker.finished_episode_timesteps[i] = <<call.max_timesteps_per_episode>>
         /\ worker.last_ep_timesteps[i] = 0
         /\ worker.last_ep_rewards[i] = 0

\* no observed raw state is fed twice in a row to a slot's preprocessor
FedExactlyOnce ==
    \A i \in Slots : \A j \in 1..(Len(trace.fed[i]) - 1) :
        trace.fed[i][j] # ZeroObs => trace.fed[i][j] # trace.fed[i][j + 1]

\* what a call recorded for slot i: (state, action, reward, terminal) lists
Recorded(m, i) ==
    [states |-> m.c.sample_states[i], actions |-> m.c.sample_actions[i],
     rewards |-> m.c.sample_rewards[i], terminals |-> m.c.sample_terminals[i]]

\* two consecutive calls record, per slot, what one call of the combined
\* length records
StreamEqualsSingle(m, t1, t2) ==
    LET first == ExecuteAndGetTimesteps(m, t1, 0, TRUE, FALSE)
        second == ExecuteAndGetTimesteps(first, t2, 0, TRUE, FALSE)
        single == ExecuteAndGetTimesteps(m, t1 + t2, 0, TRUE, FALSE)
    IN  \A i \in Slots :
            /\ Recorded(first, i).states \o Recorded(second, i).states
                 = Recorded(single, i).states
            /\ Recorded(first, i).actions \o Recorded(second, i).actions
                 = Recorded(single, i).actions
            /\ Recorded(first, i).rewards \o Recorded(second, i).rewards
                 = Recorded(single, i).rewards
            /\ Recorded(first, i).terminals \o Recorded(second, i).terminals
                 = Recorded(single, i).terminals

\* C7 as stated: with budgets that are multiples of N and n-step factor 1,
\* each slot's preprocessor is fed every observed raw state exactly once, and
\* the per-slot recorded (state, action, reward, terminal) sequence of
\* consecutive calls equals that of one call of the combined length.
C7_ContinuousStream ==
    (cfg.n_step_adjustment = 1 /\ trace.aligned) =>
        /\ cfg.preprocessing => FedExactlyOnce
        /\ pc = "idle" =>
             \A t1 \in 1..MaxTimesteps, t2 \in 1..MaxTimesteps :
                (/\ t1 % cfg.num_environments = 0
                 /\ t2 % cfg.num_environments = 0) => StreamEqualsSingle(M, t1, t2)

\* C8: in a call with break_on_terminal=true and num_timesteps > 0 the loop
\* is never entered again after a timestep in which a slot reported terminal,
\* nor after the budget is reached; so a recorded terminal=true is the last
\* transition of every slot's contribution.
C8_BreakOnTerminal ==
    (pc # "processed" /\ call.break_on_terminal /\ call.num_timesteps > 0) =>
        /\ (pc = "while" /\ WhileCondition(call)) =>
              \A i \in Slots : \A j \in DOMAIN call.sample_terminals[i] :
                  ~call.sample_terminals[i][j]
        /\ pc = "while" => call.timesteps_executed < call.num_timesteps
        /\ \A i \in Slots : \A j \in DOMAIN call.sample_terminals[i] :
              call.sample_terminals[i][j] =>
                  \A h \in Slots : j = Len(call.sample_terminals[h])

\* C8 witness: a call with break_on_terminal returned on a terminal before
\* its budget was used up
C8_Witness ==
    /\ Returned
    /\ call.break_on_terminal
    /\ call.timesteps_executed > 0
    /\ call.timesteps_executed < call.num_timesteps
    /\ \E i \in Slots : call.terminals[i]

\* C9: no slot is stepped after it reported terminal without a reset(i) in
\* between, within a call and across calls, and every step carries N actions.
C9_SteppableSlots ==
    /\ ~vector_env.stepped_done
    /\ vector_env.last_width = cfg.num_environments
    /\ \A i \in Slots : ~vector_env.slots[i].done

\* C9 witness: the previous call ended on a terminal step of a slot (also by
\* break_on_terminal) and the next call has stepped that slot again
C9_Witness ==
    /\ pc = "while"
    /\ Len(worker.sample_steps) = 1
    /\ call.timesteps_executed > 0
    /\ \E i \in Slots : worker.last_terminals[i] /\ vector_env.slots[i].t > 0
    /\ ~vector_env.stepped_done

\* the number of reset events among the first n events
RECURSIVE ResetsIn(_, _)
ResetsIn(ev, n) ==
    IF n = 0 THEN 0 ELSE ResetsIn(ev, n - 1) + (IF ev[n] = "reset" THEN 1 ELSE 0)

\* C10: after every finalization of slot i its preprocessor is reset exactly
\* once before the slot's next preprocess call, and the raw states fed to it
\* between two resets all belong to one episode.
C10_PreprocessorReset ==
    cfg.preprocessing =>
        \A i \in Slots :
            /\ \A j \in DOMAIN trace.pp_events[i] :
                  trace.pp_events[i][j] = "pre" => ResetsIn(trace.pp_events[i], j) = 1
            /\ ResetsIn(trace.pp_events[i], Len(trace.pp_events[i])) <= 1
            /\ \A a \in DOMAIN trace.fed[i], b \in DOMAIN trace.fed[i] :
                  (trace.fed[i][a] # ZeroObs /\ trace.fed[i][b] # ZeroObs)
                      => trace.fed[i][a][1] = trace.fed[i][b][1]

\* C10 witness: a slot was finalized by the cutoff, reset once, and its
\* preprocessor was then fed states of the new episode
C10_Witness ==
    /\ cfg.preprocessing
    /\ \E i \in Slots :
         /\ Len(trace.pp_events[i]) >= 4
         /\ SubSeq(trace.pp_events[i], 1, 3) = <<"final", "reset", "pre">>
         /\ \E j \in DOMAIN call.sample_terminals[i] : ~call.sample_terminals[i][j]
         /\ worker.finished_episode_timesteps[i] # <<>>
         /\ trace.fed[i][1][1] > 1

\* C11 (priority weights): when the worker does not compute weights every
\* emitted transition has weight 1; when it does, weight[i] =
\* abs(loss_per_item[i]) + floor for every i, with loss_per_item the loss of
\* the batch after n-step adjustment and truncation; there is exactly one
\* weight per emitted transition.
C11_PriorityWeights ==
    Processed =>
        /\ Len(sample.importance_weights) = sample.batch_size
        /\ Len(sample.rewards) = sample.batch_size
        /\ \A i \in 1..sample.batch_size :
              LET loss == TdLossPerItem(sample)[i]
                  w == sample.importance_weights[i]
              IN  IF cfg.worker_computes_weights
                  THEN IF loss.kind = "finite"
                       THEN w = [kind |-> "finite",
                                 abs |-> (IF loss.v < 0 THEN -loss.v ELSE loss.v),
                                 floor |-> 1]
                       ELSE w.kind = loss.kind
                  ELSE w = [kind |-> "finite", abs |-> 1, floor |-> 0]

\* C11 witness: a batch of 3 was cut to 2 by the 2-step adjustment; the
\* weight of a transition with a negative loss is abs(loss) + floor, and the
\* weight of a rewritten transition comes from its rewritten reward
C11_Witness ==
    /\ pc = "processed"
    /\ cfg.worker_computes_weights
    /\ cfg.n_step_adjustment = 2
    /\ Len(batch_in.rewards) = 3
    /\ Len(sample.importance_weights) = 2
    /\ \E i \in 1..2 :
         /\ TdLossPerItem(sample)[i] = [kind |-> "finite", v |-> -1]
         /\ sample.importance_weights[i] = [kind |-> "finite", abs |-> 1, floor |-> 1]
    /\ \E j \in 1..2 :
         /\ sample.rewards[j] # batch_in.rewards[j]
         /\ sample.importance_weights[j]
              = [kind |-> "finite", abs |-> sample.rewards[j] - 2, floor |-> 1]

\* C12 as stated (numeric degeneracy): a transition whose loss is non-finite
\* (NaN or infinity) is emitted with the floor constant as its weight, and no
\* non-finite weight is ever emitted.
C12_NonFiniteClamped ==
    (Processed /\ cfg.worker_computes_weights) =>
        \A i \in 1..sample.batch_size :
            /\ sample.importance_weights[i].kind = "finite"
            /\ TdLossPerItem(sample)[i].kind # "finite" =>
                  sample.importance_weights[i] = [kind |-> "finite", abs |-> 0, floor |-> 1]

\* the raw observation a recorded state was made from
RawOf(state) == IF cfg.preprocessing THEN state.compressed[2] ELSE state.compressed

\* observation a was made before observation b in the life of a slot
ObservedBefore(a, b) == a[1] < b[1] \/ (a[1] = b[1] /\ a[2] < b[2])

\* C13: in every emitted batch with n-step factor 1, the transitions of one
\* slot appear in the order in which the slot was stepped: of two
\* transitions of a slot, the earlier step has the smaller batch index.
C13_SlotTemporalOrder ==
    (Returned /\ cfg.n_step_adjustment = 1) =>
        \A a \in 1..sample.batch_size, b \in 1..sample.batch_size :
            (a < b /\ trace.slot_of[a] = trace.slot_of[b]) =>
                /\ trace.step_of[a] < trace.step_of[b]
                /\ ObservedBefore(RawOf(sample.states[a]), RawOf(sample.states[b]))

\* C13 witness: two slots, each contributed two transitions, the second of
\* one slot already in its next episode
C13_Witness ==
    /\ Returned /\ cfg.n_step_adjustment = 1
    /\ cfg.num_environments = 2
    /\ sample.batch_size = 4
    /\ trace.slot_of = <<1, 1, 2, 2>>
    /\ RawOf(sample.states[1])[1] < RawOf(sample.states[2])[1]

\* C14 as stated: the emitted batch is interleaved by step: for N >= 2 and
\* a call of at least two timesteps, the N transitions of timestep t all
\* precede the N transitions of timestep t+1 in the flat batch.
C14_InterleavedByStep ==
    (Returned /\ cfg.num_environments >= 2
              /\ call.timesteps_executed >= 2 * cfg.num_environments) =>
        \A x \in 1..sample.batch_size :
            LET slot == ((x - 1) % cfg.num_environments) + 1
                step == ((x - 1) \div cfg.num_environments) + 1
            IN  /\ sample.states[x] = RayCompress(call.sample_states[slot][step])
                /\ RawOf(sample.states[x])[3] = slot

\* C14 amended: the emitted batch is concatenated by slot: the transitions
\* of slot 0 in the order of their steps, then those of slot 1, ...; a
\* slot's transitions are contiguous and timestep t of a later slot comes
\* after timestep t+1 of an earlier slot.
C14_ConcatenatedBySlot ==
    Returned =>
        /\ \A a \in 1..sample.batch_size, b \in 1..sample.batch_size :
              a < b =>
                  \/ trace.slot_of[a] < trace.slot_of[b]
                  \/ /\ trace.slot_of[a] = trace.slot_of[b]
                     /\ trace.step_of[a] < trace.step_of[b]
        /\ \A a \in 1..sample.batch_size :
              /\ sample.states[a]
                   = RayCompress(call.sample_states[trace.slot_of[a]][trace.step_of[a]])
              /\ sample.actions[a] = call.sample_actions[trace.slot_of[a]][trace.step_of[a]]
              /\ sample.terminals[a]
                   = call.sample_terminals[trace.slot_of[a]][trace.step_of[a]]

\* C14 witness: two slots and two steps: the emitted batch holds both
\* transitions of the first slot in front of those of the second
C14_Witness ==
    /\ Returned
    /\ cfg.num_environments = 2
    /\ sample.batch_size = 4
    /\ trace.slot_of = <<1, 1, 2, 2>>
    /\ trace.step_of = <<1, 2, 1, 2>>
    /\ sample.states[2] = RayCompress(call.sample_states[1][2])
    /\ sample.states[3] = RayCompress(call.sample_states[2][1])

\* ceil(a / n) for n > 0
CeilDiv(a, n) == -((-a) \div n)

\* the lockstep steps the running (or last) call has taken
LoopIterations == Len(call.sample_actions[1])

\* C15: every collect call terminates: for every num_timesteps (also 0 and
\* negative), every max_timesteps_per_episode and either break_on_terminal,
\* the loop takes at most ceil(num_timesteps / N) lockstep steps (none when
\* that is not positive) and the call returns a sample.
C15_Termination ==
    /\ [](LoopIterations <= Max(0, CeilDiv(call.num_timesteps, cfg.num_environments)))
    /\ (pc = "while") ~> (pc = "idle" /\ Len(worker.sample_steps) > 0)

\* C15 witness: a call with break_on_terminal and a cutoff used its whole
\* budget of 3 timesteps and returned
C15_Witness ==
    /\ Returned
    /\ call.break_on_terminal
    /\ call.max_timesteps_per_episode = 1
    /\ call.num_timesteps = 3
    /\ LoopIterations = CeilDiv(3, cfg.num_environments)
    /\ sample.batch_size > 0

\* the worker was constructed in local-exploration mode with an epsilon
LocalExploration ==
    pc # "failed" /\ cfg.worker_executes_exploration /\ worker.exploration_epsilon # <<>>

\* C16 as stated: in local-exploration mode the actions of every timestep of
\* a collect call come from the worker's own epsilon draw, one draw per
\* timestep for all N slots; with epsilon = 1 every collected action is a
\* random sample.
C16_LoopUsesWorkerDraw ==
    LocalExploration =>
        /\ trace.loop_draws = Len(trace.action_src)
        /\ worker.exploration_epsilon = <<10>> =>
              \A j \in DOMAIN trace.action_src : trace.action_src[j] = "sample"

\* C17 as stated: in local-exploration mode RayWorker.get_action calls the
\* policy with exploration disabled whenever its draw does not select the
\* random action, whatever use_exploration the caller passed; in delegated
\* mode the caller's value is passed through unchanged.
C17_PolicyExplorationDisabled ==
    (trace.reply.kind = "get_action" /\ trace.reply.source = "policy") =>
        IF cfg.worker_executes_exploration
        THEN ~trace.reply.policy_explore
        ELSE trace.reply.policy_explore = trace.reply.caller_explore

\* the transitions a collect call of worker_sample_size timesteps produces
LookaheadOf(c) ==
    IF c.worker_sample_size <= 0 THEN 0
    ELSE c.num_environments * CeilDiv(c.worker_sample_size, c.num_environments)

\* C19 as stated: a worker whose n-step factor is incompatible with the
\* available lookahead (k < 1, or k larger than the number of transitions a
\* collect call of worker_sample_size produces) fails at construction and
\* never reaches a collect call.
C19_ConfigurationError ==
    pc # "failed" =>
        /\ cfg.n_step_adjustment >= 1
        /\ cfg.n_step_adjustment <= LookaheadOf(cfg)

\* C20 as stated: get_workload_statistics returns a statistics record in
\* every reachable worker state (also before any collect call and while
\* slots have not finished an episode), and reports min / max / mean / final
\* episode reward as None when no episode has finished.
C20_StatisticsAlways ==
    trace.reply.kind = "statistics" =>
        /\ trace.reply.error = ""
        /\ (\A i \in Slots : worker.finished_episode_rewards[i] = <<>>) =>
              /\ trace.reply.min_episode_reward = <<>>
              /\ trace.reply.max_episode_reward = <<>>
              /\ trace.reply.mean_episode_reward = <<>>
              /\ trace.reply.final_episode_reward = <<>>

\* the memory of a stack that was fed the raw states `fed` after its reset
RECURSIVE MemAfter(_)
MemAfter(fed) ==
    IF fed = <<>> THEN PreprocessorReset
    ELSE PreprocessMem(MemAfter(SubSeq(fed, 1, Len(fed) - 1)), Last(fed))

\* C18 (preprocessing isolation): each slot owns its own preprocessor, and
\* resetting or calling the preprocessor of slot i leaves the memory (and
\* so the later outputs) of every other slot's preprocessor unchanged: the
\* memory of each slot's stack is what the slot's own raw states since its
\* own last reset make it.
C18_PreprocessorIsolation ==
    (cfg.preprocessing /\ pc # "failed") =>
        /\ \A i \in Slots, j \in Slots : i # j => worker.pp_of[i] # worker.pp_of[j]
        /\ \A i \in Slots :
              worker.preprocessors[worker.pp_of[i]] = MemAfter(trace.fed[i])
        /\ pc = "while" =>
              \A i \in Slots : \A j \in DOMAIN call.sample_states[i] :
                  call.sample_states[i][j][2][3] = i

\* C18 witness: one slot's preprocessor was reset on finalization while
\* another slot's preprocessor keeps the frame it was fed
C18_Witness ==
    /\ cfg.preprocessing
    /\ \E i \in Slots, j \in Slots :
         /\ i # j
         /\ trace.pp_events[i] = <<"final", "reset">>
         /\ worker.preprocessors[worker.pp_of[i]] = PreprocessorReset
         /\ trace.fed[j] # <<>>
         /\ worker.preprocessors[worker.pp_of[j]] = <<Last(trace.fed[j])>>

C22_ArraysSameLength ==
    Returned =>
        /\ Len(sample.states) = sample.batch_size
        /\ Len(sample.actions) = sample.batch_size
        /\ Len(sample.rewards) = sample.batch_size
        /\ Len(sample.terminals) = sample.batch_size
        /\ Len(sample.next_states) = sample.batch_size
        /\ Len(sample.importance_weights) = sample.batch_size

\* C22, the calls that execute at least one timestep
C22_ArraysSameLengthStepped ==
    (Returned /\ call.timesteps_executed > 0) =>
        /\ Len(sample.states) = sample.batch_size
        /\ Len(sample.actions) = sample.batch_size
        /\ Len(sample.rewards) = sample.batch_size
        /\ Len(sample.terminals) = sample.batch_size
        /\ Len(sample.next_states) = sample.batch_size
        /\ Len(sample.importance_weights) = sample.batch_size

\* C23: conservation of episode bookkeeping. After any sequence of completed
\* collect calls, for every slot the finalized episode lengths plus the
\* running length add up to the number of timesteps the slot was stepped,
\* which is total_worker_steps / N, and the finalized episode rewards plus
\* the running reward add up to the step rewards the slot received.
C23_Conservation ==
    pc = "idle" =>
        /\ worker.total_worker_steps % cfg.num_environments = 0
        /\ \A i \in 1..cfg.num_environments :
              /\ SumSeq(worker.finished_episode_timesteps[i]) + worker.last_ep_timesteps[i]
                    = trace.slot_steps[i]
              /\ trace.slot_steps[i] = worker.total_worker_steps \div cfg.num_environments
              /\ SumSeq(worker.finished_episode_rewards[i]) + worker.last_ep_rewards[i]
                    = trace.slot_rewards[i]
              /\ Len(worker.finished_episode_rewards[i])
                    = Len(worker.finished_episode_timesteps[i])

\* C23 witness: after two calls a slot has a finalized episode that began in
\* the first call and ended in the second, and an episode still running
C23_Witness ==
    /\ pc = "idle" /\ Len(worker.sample_steps) = 2
    /\ worker.sample_steps[1] > 0
    /\ \E i \in 1..cfg.num_environments :
          /\ worker.finished_episode_timesteps[i] # <<>>
          /\ worker.finished_episode_timesteps[i][1] * cfg.num_environments
                > worker.sample_steps[1]
          /\ worker.last_ep_timesteps[i] > 0
          /\ trace.slot_steps[i]
                = SumSeq(worker.finished_episode_timesteps[i]) + worker.last_ep_timesteps[i]

\* the call that was last begun ended in an exception after at least one
\* of its timesteps had completed
FailedAfterStep ==
    /\ pc = "idle" /\ trace.reply.kind = "raised"
    /\ call.timesteps_executed > 0

\* the next call resumes where the environments are: last_states are the
\* current observations of the slots, and the counters account for every
\* step the slots were stepped
ResumableCarry ==
    \A i \in 1..cfg.num_environments :
        /\ worker.last_states[i] = EnvObs(vector_env, i)
        /\ SumSeq(worker.finished_episode_timesteps[i]) + worker.last_ep_timesteps[i]
              = trace.slot_steps[i]
        /\ worker.total_worker_steps = cfg.num_environments * trace.slot_steps[i]

\* C24: a failed collect call leaves the carry state consistent. If
\* get_action raises after at least one timestep of the call has completed,
\* the carry state is either exactly the state before the call or a state
\* from which the next call resumes correctly: the running counters never
\* describe steps that last_states does not reflect.
C24_FailedCallConsistent ==
    FailedAfterStep =>
        \/ CarryState([w |-> worker]) = CarryState([w |-> trace.before[1]])
        \/ ResumableCarry

\* C24, the completed calls: between calls the carry state is resumable
C24_CompletedCallConsistent ==
    (pc = "idle" /\ trace.failures = 0) => ResumableCarry

\* the episode transition j of the merged batch belongs to: its slot and
\* the number of the slot's episode its state was observed in
TransitionEpisode(j) == <<trace.slot_of[j], RawOf(RayCompress(batch_in.states[j]))[1]>>

\* C25: the n-step adjustment never crosses an episode boundary. For k > 1
\* the rewritten reward[i] contains no reward of an episode other than the
\* one of transition i, and next_state[i] is not a state of a later episode
\* of the slot, also when the episode of transition i was ended by the
\* max_timesteps_per_episode cutoff rather than by a terminal.
C25_NoEpisodeCrossing ==
    (Returned /\ cfg.n_step_adjustment > 1) =>
        \A i \in 1..sample.batch_size :
            /\ \A rd \in trace.nstep_reads :
                  rd[1] = i => TransitionEpisode(rd[2]) = TransitionEpisode(i)
            /\ RawOf(sample.next_states[i])[3] = trace.slot_of[i] =>
                  RawOf(sample.next_states[i])[1] <= TransitionEpisode(i)[2]

\* C25 for one slot and episodes that end by a terminal only: no reward of
\* another episode is added
C25_TerminalEndedRewards ==
    (Returned /\ cfg.n_step_adjustment > 1 /\ cfg.num_environments = 1
        /\ call.max_timesteps_per_episode = 0) =>
        \A rd \in trace.nstep_reads :
            rd[1] <= sample.batch_size => TransitionEpisode(rd[2]) = TransitionEpisode(rd[1])

\* C26: in every emitted batch with n-step factor 1, every transition whose
\* terminal flag is true carries the all-zero state as next_state, wherever
\* it lies in the slot's contribution.
C26_TerminalNextStateZero ==
    (Returned /\ cfg.n_step_adjustment = 1) =>
        \A i \in 1..sample.batch_size :
            sample.terminals[i] => sample.next_states[i] = RayCompress(ZeroState)

\* C26 for the last transition of each slot's contribution
C26_LastTerminalNextStateZero ==
    (Returned /\ cfg.n_step_adjustment = 1) =>
        \A i \in 1..sample.batch_size :
            (sample.terminals[i]
                /\ (i = sample.batch_size \/ trace.slot_of[i + 1] # trace.slot_of[i]))
            => sample.next_states[i] = RayCompress(ZeroState)

\* the lengths of the EpisodeRecords of slot i appended by the call in
\* progress so far
AppendedLengths(i) ==
    LET all == worker.finished_episode_timesteps[i]
        old == Len(trace.before[1].finished_episode_timesteps[i])
    IN  {all[j] : j \in (old + 1)..Len(all)}

\* C27: every EpisodeRecord appended during a collect call with
\* max_timesteps_per_episode = M > 0 has a length between 1 and M, also when
\* earlier calls used a different cutoff or none and left a running episode
\* to be carried over.
C27_RecordLengthWithinCutoff ==
    (pc \in {"while", "after"} /\ call.max_timesteps_per_episode > 0) =>
        \A i \in 1..cfg.num_environments : \A len \in AppendedLengths(i) :
            1 <= len /\ len <= call.max_timesteps_per_episode

\* C27 for the calls that find every running episode shorter than M
C27_RecordLengthShortCarry ==
    (pc \in {"while", "after"} /\ call.max_timesteps_per_episode > 0
        /\ \A i \in 1..cfg.num_environments :
              trace.before[1].last_ep_timesteps[i] < call.max_timesteps_per_episode) =>
        \A i \in 1..cfg.num_environments : \A len \in AppendedLengths(i) :
            1 <= len /\ len <= call.max_timesteps_per_episode

\* C28: the n-step adjustment leaves states, actions and terminal flags of
\* every surviving transition unchanged and rewrites only reward and
\* next_state; with k = 1 it changes nothing at all (rewards, next_states
\* and length are those collected); and a transition whose own terminal
\* flag is true keeps its reward and next_state for every k.
C28_OnlyRewardAndNextState ==
    Processed =>
        /\ sample.batch_size <= Len(batch_in.rewards)
        /\ \A i \in 1..sample.batch_size :
              /\ sample.states[i] = RayCompress(batch_in.states[i])
              /\ sample.actions[i] = batch_in.actions[i]
              /\ sample.terminals[i] = batch_in.terminals[i]
              /\ batch_in.terminals[i] =>
                    /\ sample.rewards[i] = batch_in.rewards[i]
                    /\ sample.next_states[i] = RayCompress(batch_in.next_states[i])
        /\ cfg.n_step_adjustment = 1 =>
              /\ sample.batch_size = Len(batch_in.rewards)
              /\ sample.rewards = batch_in.rewards
              /\ sample.actions = batch_in.actions
              /\ sample.terminals = batch_in.terminals
              /\ Len(sample.next_states) = Len(batch_in.next_states)
              /\ \A i \in 1..Len(batch_in.next_states) :
                    sample.next_states[i] = RayCompress(batch_in.next_states[i])

\* C28 witness: k = 2 on three transitions, the first terminal: it survives
\* with its reward and next_state, the second survives rewritten
C28_Witness ==
    /\ pc = "processed"
    /\ cfg.n_step_adjustment = 2
    /\ batch_in.terminals = <<TRUE, FALSE, FALSE>>
    /\ sample.batch_size = 2
    /\ sample.rewards[1] = batch_in.rewards[1]
    /\ sample.next_states[1] = RayCompress(batch_in.next_states[1])
    /\ sample.rewards[2] = batch_in.rewards[2] + discount * batch_in.rewards[3]
    /\ sample.next_states[2] = RayCompress(batch_in.next_states[3])
    /\ sample.states[2] = RayCompress(batch_in.states[2])

\* C29: after any sequence of completed collect calls, total_worker_steps
\* equals the sum of the timesteps_executed the calls reported (the sum of
\* sample_steps), calls ended early by break_on_terminal and calls with
\* num_timesteps <= 0 included, and the number of timing samples equals the
\* number of calls.
C29_StepCounterAndTimings ==
    (pc = "idle" /\ trace.failures = 0) =>
        /\ worker.total_worker_steps = SumSeq(worker.sample_steps)
        /\ Len(worker.sample_steps) = trace.calls
        /\ Len(worker.sample_times) = trace.calls
        /\ Len(worker.sample_env_frames) = trace.calls
        /\ trace.calls > 0 => sample.timesteps_executed = Last(worker.sample_steps)

\* C29 witness: a call with num_timesteps <= 0, then a call that
\* break_on_terminal ended before its budget
C29_Witness ==
    /\ pc = "idle" /\ trace.calls = 2
    /\ worker.sample_steps[1] = 0
    /\ call.break_on_terminal
    /\ call.timesteps_executed > 0
    /\ call.timesteps_executed < call.num_timesteps
    /\ worker.total_worker_steps = call.timesteps_executed
    /\ Len(worker.sample_times) = 2

====
